---------------------------- MODULE Spec2Model ----------------------------
(***************************************************************************)
(* Model of the CSV batch processor                                        *)
(* (csv_processor/management/commands/process_csv.py, models.py).          *)
(*                                                                         *)
(* Text is a sequence of tokens; the token " " is whitespace, so that      *)
(* str.strip() is computed and not assumed.  The value None is the         *)
(* one-token sequence <<"<None>">>, which no input text contains.          *)
(*                                                                         *)
(* Fields named row / rec on EmailRecords, messages and API calls are      *)
(* history tags (which row of which processing record caused them); the    *)
(* program does not store them.                                            *)
(***************************************************************************)
EXTENDS Integers, Sequences, FiniteSets, TLC

VARIABLES
    run_once,   \* options['once']
    incoming,   \* CSV_INCOMING_DIR: file name -> file content
    processed,  \* CSV_PROCESSED_DIR: set of file names (stem, timestamp)
    clock,      \* datetime.now(), in whole seconds
    records,    \* table CSVProcessingRecord, index = id
    emails,     \* table EmailRecord
    outbox,     \* messages handed to send_mail without error
    api_calls,  \* requests.get calls made
    row_calls,  \* calls of process_row, with what they met and how they ended
    given,      \* the incoming directory as the run found it
    pc,         \* position of the command: start, scan, files, rows, move,
                \* done, raised
    csv_files,  \* process_csv_files: the part of the glob list not yet visited
    matched,    \* the glob list of the current pass
    invoked,    \* files process_single_csv was called for in the current pass
    passes,     \* passes of process_csv_files completed
    cur,        \* locals of process_single_csv
    other,      \* a second process of the command, while it is not running:
                \* its pc, csv_files, matched, invoked, passes and cur
    switches    \* how many times the running process has been changed

vars == <<run_once, incoming, processed, clock, records, emails, outbox,
          api_calls, row_calls, given, pc, csv_files, matched, invoked, passes, cur,
          other, switches>>

----------------------------------------------------------------------------
(* Bounds *)

MaxRows == 2
MaxPasses == 2

\* Changes of the running process, when two processes run at the same time.
MaxSwitches == 2

\* Rows of the file that two processes share.
MaxSharedRows == 1

----------------------------------------------------------------------------
(* Values *)

None == <<"<None>">>
WS == " "

\* File names: stem and suffix.
A_CSV == <<"a", ".csv">>
B_CSV == <<"b", ".csv">>
N_TXT == <<"notes", ".txt">>

\* Rows as csv.DictReader yields them: a short line has restval None.
RowKinds ==
    { [zip |-> <<WS, "90210", WS>>, email |-> <<"a@x.com">>],
      [zip |-> <<>>,                email |-> <<"b@x.com">>],
      [zip |-> <<"10001">>,         email |-> <<WS>>],
      [zip |-> <<>>,                email |-> <<>>],
      [zip |-> <<"60601">>,         email |-> None] }

RowSeqs == UNION { [1..n -> RowKinds] : n \in 0..MaxRows }

\* A file whose bytes are not UTF-8 text: reading it raises.
Undecodable == [readable |-> FALSE, rows |-> <<>>]

\* A file: CSV text with the header zip,email and the rows given.
Contents == { [readable |-> TRUE, rows |-> r] : r \in RowSeqs }
            \cup {Undecodable}

\* What requests.get(...) gives: a transport/HTTP error, or a JSON body.
Responses ==
    { [kind |-> "error", cause |-> <<"timeout">>, places |-> <<>>],
      [kind |-> "json",  cause |-> <<>>, places |-> <<>>],
      [kind |-> "json",  cause |-> <<>>,
       places |-> << [state |-> <<"California">>,
                      place_name |-> <<"Beverly Hills">>] >>] }

\* What send_mail(..., fail_silently=False) does: returns, or raises.
SmtpOutcomes == { <<>>, <<"smtp refused">> }

\* What a write to the database does.
StoreUp == {"ok"}
StoreAny == {"ok", "error"}

StoreError == <<"database error">>

\* What the file system does to a move whose source exists: lets it
\* through (TRUE) or refuses it (FALSE).
FileSystemUp == {TRUE}
FileSystemAny == {TRUE, FALSE}

----------------------------------------------------------------------------
(* Pure helpers *)

RECURSIVE lstrip(_)
lstrip(s) == IF s # <<>> /\ Head(s) = WS THEN lstrip(Tail(s)) ELSE s

RECURSIVE rstrip(_)
rstrip(s) ==
    IF s # <<>> /\ s[Len(s)] = WS THEN rstrip(SubSeq(s, 1, Len(s) - 1)) ELSE s

\* str.strip()
strip(s) == rstrip(lstrip(s))

\* dict.get(key, default)
get(d, key, default) == IF key \in DOMAIN d THEN d[key] ELSE default

\* x or y, on text
or_else(x, y) == IF x # <<>> THEN x ELSE y

\* needle in haystack, on text
contains(haystack, needle) ==
    \E i \in 0..(Len(haystack) - Len(needle)) :
        SubSeq(haystack, i + 1, i + Len(needle)) = needle

\* An outcome of a call: a returned value or a raised exception.
Return(v) == [raised |-> FALSE, value |-> v, msg |-> <<>>]
Raise(m) == [raised |-> TRUE, value |-> <<>>, msg |-> m]


----------------------------------------------------------------------------
(* models.py *)

\* CSVProcessingRecord.objects.create(filename=..., status='processing'):
\* the counts take their default 0.
CSVProcessingRecord(filename, status) ==
    [filename |-> filename, status |-> status,
     total_rows |-> 0, successful_rows |-> 0, failed_rows |-> 0]

\* EmailRecord(...): state, city and error_message default to None.
EmailRecord(processing_record, email_address, zip_code, state, city, success, error_message) ==
    [processing_record |-> processing_record,
     email_address |-> email_address, zip_code |-> zip_code,
     state |-> state, city |-> city,
     success |-> success, error_message |-> error_message]

----------------------------------------------------------------------------
(* Command.get_location_from_zip *)

Unknown == <<"Unknown">>

\* get_location_from_zip that takes an empty result for an error.
get_location_rejects_empty(zip_code, resp) ==
    IF resp.kind = "error"
    THEN Raise(<<"API error for ZIP ">> \o zip_code \o <<": ">> \o resp.cause)
    ELSE IF Len(resp.places) > 0
         THEN Return([state |-> get(resp.places[1], "state", Unknown),
                      city  |-> get(resp.places[1], "place_name", Unknown)])
         ELSE Raise(<<"No places for ZIP ">> \o zip_code)

\* get_location_from_zip that answers a failed request with the placeholder.
get_location_swallows_error(zip_code, resp) ==
    IF resp.kind = "json" /\ Len(resp.places) > 0
    THEN Return([state |-> get(resp.places[1], "state", Unknown),
                 city  |-> get(resp.places[1], "place_name", Unknown)])
    ELSE Return([state |-> Unknown, city |-> Unknown])

get_location_from_zip(zip_code, resp) ==
    IF resp.kind = "error"
    THEN Raise(<<"API error for ZIP ">> \o zip_code \o <<": ">> \o resp.cause)
    ELSE IF Len(resp.places) > 0
         THEN LET place == resp.places[1]
              IN  Return([state |-> get(place, "state", Unknown),
                          city  |-> get(place, "place_name", Unknown)])
         ELSE Return([state |-> Unknown, city |-> Unknown])

(* Command.send_email_to_address: smtp = <<>> when send_mail returns,     *)
(* else the text of the exception it raises.                               *)
send_email_to_address(email, zip_code, state, city, smtp) ==
    IF smtp = <<>>
    THEN Return([to |-> email, zip_code |-> zip_code,
                 subject |-> <<"Location Information for ZIP ">> \o zip_code,
                 state |-> state, city |-> city])
    ELSE Raise(smtp)

----------------------------------------------------------------------------
(* Command.process_row                                                     *)
(* resp, smtp: what the lookup and the mail transport do in this call;     *)
(* st_ok, st_err: what the database does on the write of the success       *)
(* record and on the write of the failure record.                          *)
(* Result: raised/msg (an exception left process_row), ret (its return     *)
(* value), created (EmailRecords written), sent (messages sent),           *)
(* api (lookup calls made).                                                *)

\* An except block that records nothing and lets the exception go on.
process_row_reraises(record, zip_code, email, msg, sent, api, st_err) ==
    [raised |-> TRUE, msg |-> msg, ret |-> FALSE, created |-> <<>>,
     sent |-> sent, api |-> api]

process_row_except(record, zip_code, email, msg, sent, api, st_err) ==
    IF st_err = "ok"
    THEN [raised |-> FALSE, msg |-> <<>>, ret |-> FALSE,
          created |-> << EmailRecord(record, email, zip_code, None, None,
                                     FALSE, msg) >>,
          sent |-> sent, api |-> api]
    ELSE [raised |-> TRUE, msg |-> StoreError, ret |-> FALSE,
          created |-> <<>>, sent |-> sent, api |-> api]

process_row(record, zip_code, email, resp, smtp, st_ok, st_err) ==
    LET api == << [zip_code |-> zip_code, resp |-> resp] >>
        loc == get_location_from_zip(zip_code, resp)
    IN  IF loc.raised
        THEN process_row_except(record, zip_code, email, loc.msg, <<>>, api,
                                st_err)
        ELSE
          LET snd == send_email_to_address(email, zip_code, loc.value.state,
                                           loc.value.city, smtp)
          IN  IF snd.raised
              THEN process_row_except(record, zip_code, email, snd.msg, <<>>,
                                      api, st_err)
              ELSE IF st_ok = "ok"
              THEN [raised |-> FALSE, msg |-> <<>>, ret |-> TRUE,
                    created |-> << EmailRecord(record, email, zip_code,
                                               loc.value.state,
                                               loc.value.city, TRUE, None) >>,
                    sent |-> << snd.value >>, api |-> api]
              ELSE process_row_except(record, zip_code, email, StoreError,
                                      << snd.value >>, api, st_err)

----------------------------------------------------------------------------
(* History tags *)

tag(seq, rec, row) ==
    [i \in DOMAIN seq |-> seq[i] @@ [rec |-> rec, row |-> row]]

----------------------------------------------------------------------------
(* State *)

NoFrame ==
    [path |-> <<"", "">>, record |-> 0,
     obj |-> CSVProcessingRecord(<<"", "">>, "pending"),
     total_rows |-> 0, successful_rows |-> 0, failed_rows |-> 0,
     csvfile |-> Undecodable, reader |-> 0]

\* The orders in which glob('*.csv') may list the directory.
glob(dir, suffix) ==
    LET found == { f \in DOMAIN dir : f[2] = suffix }
    IN  { q \in [1..Cardinality(found) -> found] :
            \A i, j \in DOMAIN q : i # j => q[i] # q[j] }

\* Rows in the files of a directory, all told.
RECURSIVE total_size(_, _)
total_size(dir, names) ==
    IF names = {} THEN 0
    ELSE LET f == CHOOSE x \in names : TRUE
         IN  Len(dir[f].rows) + total_size(dir, names \ {f})

\* The incoming directory when the command starts: up to two files,
\* holding at most MaxRows rows between them.
Directories ==
    { dir \in UNION { [d -> Contents] :
                         d \in {{}, {A_CSV}, {A_CSV, B_CSV}, {A_CSV, N_TXT},
                                {N_TXT}} } :
        total_size(dir, DOMAIN dir) <= MaxRows }

\* No second process.
NoPeer ==
    [pc |-> "none", csv_files |-> <<>>, matched |-> <<>>, invoked |-> {},
     passes |-> 0, cur |-> NoFrame]

Start(once, peer) ==
    /\ run_once = once
    /\ other = peer
    /\ switches = 0
    /\ incoming \in Directories
    /\ processed = {}
    /\ clock = 0
    /\ records = <<>>
    /\ emails = <<>>
    /\ outbox = <<>>
    /\ api_calls = <<>>
    /\ row_calls = <<>>
    /\ given = incoming
    /\ pc = "start"
    /\ csv_files = <<>>
    /\ matched = <<>>
    /\ invoked = {}
    /\ passes = 0
    /\ cur = NoFrame

\* process_csv --once
Init == Start(TRUE, NoPeer)

\* process_csv --once, twice at the same time on the same directories
\* The shared directory is empty or holds a.csv.
InitTwo ==
    /\ Start(TRUE, [NoPeer EXCEPT !.pc = "start"])
    /\ DOMAIN incoming \subseteq {A_CSV}
    /\ total_size(incoming, DOMAIN incoming) <= MaxSharedRows

\* process_csv (continuous scan)
InitLoop == Start(FALSE, NoPeer)

----------------------------------------------------------------------------
(* Command.handle *)

\* handle up to the first call of process_csv_files.
Handle ==
    /\ pc = "start"
    /\ pc' = "scan"
    /\ UNCHANGED <<other, switches, run_once, incoming, processed, clock, records, emails,
                   outbox, api_calls, row_calls, given, csv_files, matched,
                   invoked, passes, cur>>

\* handle that ignores --once and scans again.
HandleReturn_scans_again ==
    /\ pc = "files"
    /\ csv_files = <<>>
    /\ run_once
    /\ pc' = "scan"
    /\ passes' = passes + 1
    /\ UNCHANGED <<other, switches, run_once, incoming, processed, clock, records, emails,
                   outbox, api_calls, row_calls, given, csv_files, matched,
                   invoked, cur>>

\* --once: process_csv_files has returned, handle returns.
HandleReturn ==
    /\ pc = "files"
    /\ csv_files = <<>>
    /\ run_once
    /\ pc' = "done"
    /\ passes' = passes + 1
    /\ UNCHANGED <<other, switches, run_once, incoming, processed, clock, records, emails,
                   outbox, api_calls, row_calls, given, csv_files, matched,
                   invoked, cur>>

\* continuous: process_csv_files has returned, time.sleep(interval), again.
HandleSleep ==
    /\ pc = "files"
    /\ csv_files = <<>>
    /\ ~run_once
    /\ pc' = "scan"
    /\ passes' = passes + 1
    /\ clock' = clock + 1
    /\ UNCHANGED <<other, switches, run_once, incoming, processed, records, emails, outbox,
                   api_calls, row_calls, given, csv_files, matched, invoked,
                   cur>>

----------------------------------------------------------------------------
(* Command.process_csv_files *)

\* The glob and the emptiness test; the for loop is pc = "files".
process_csv_files ==
    /\ pc = "scan"
    /\ passes < MaxPasses
    /\ \E listing \in glob(incoming, ".csv") :
          /\ csv_files' = listing
          /\ matched' = listing
    /\ invoked' = {}
    /\ pc' = "files"
    /\ UNCHANGED <<other, switches, run_once, incoming, processed, clock, records, emails,
                   outbox, api_calls, row_calls, given, passes, cur>>

----------------------------------------------------------------------------
(* Command.move_to_processed *)

\* The destination name: stem, timestamp, suffix.
new_filename(csv_file_path, now) ==
    <<csv_file_path[1], now, csv_file_path[2]>>

\* A move that does not look for its source.
move_ignores_source(dir, csv_file_path, env_ok) == env_ok

\* A copy in place of a move: the source stays.
move_source_copies(dir, csv_file_path) == dir

\* shutil.move: the file leaves the incoming directory.
move_source(dir, csv_file_path) ==
    [f \in DOMAIN dir \ {csv_file_path} |-> dir[f]]

\* shutil.move returns when the source is there and the file system
\* lets it (env_ok); else it raises.
move_succeeds(dir, csv_file_path, env_ok) ==
    env_ok /\ csv_file_path \in DOMAIN dir

move_destination(dir, csv_file_path, now) ==
    dir \cup {new_filename(csv_file_path, now)}

----------------------------------------------------------------------------
(* Command.process_single_csv *)

\* missing_data that tests the zip code alone.
missing_data_zip_only(zip_code, email) == zip_code = <<>>

\* The row test of the loop body.
missing_data(zip_code, email) == zip_code = <<>> \/ email = <<>>

\* The EmailRecord written for a row with missing data.
missing_record(record, zip_code, email) ==
    EmailRecord(record, or_else(email, <<"N/A">>), or_else(zip_code, <<"N/A">>),
                None, None, FALSE, <<"Missing zip code or email">>)

\* count_missing without the increment of failed_rows.
count_missing_forgets(frame) ==
    [frame EXCEPT !.total_rows = @ + 1, !.reader = @ + 1]

\* The counters after a row with missing data.
count_missing(frame) ==
    [frame EXCEPT !.total_rows = @ + 1, !.failed_rows = @ + 1,
                  !.reader = @ + 1]

\* count_row that takes every return of process_row for a success.
count_row_ignores_result(frame, success) ==
    [frame EXCEPT !.total_rows = @ + 1, !.successful_rows = @ + 1,
                  !.reader = @ + 1]

\* The counters after process_row has returned success.
count_row(frame, success) ==
    IF success
    THEN [frame EXCEPT !.total_rows = @ + 1, !.successful_rows = @ + 1,
                       !.reader = @ + 1]
    ELSE [frame EXCEPT !.total_rows = @ + 1, !.failed_rows = @ + 1,
                       !.reader = @ + 1]

\* "Update record": the model object after the loop.
completed_record(frame) ==
    [frame.obj EXCEPT !.total_rows = frame.total_rows,
                      !.successful_rows = frame.successful_rows,
                      !.failed_rows = frame.failed_rows,
                      !.status = "completed"]

\* record.save(): the row of the table takes the fields of the object.
save(table, id, obj, st) ==
    IF st = "ok" THEN [table EXCEPT ![id] = obj] ELSE table

(* except Exception: record.status = 'failed'; record.save().  The       *)
(* function returns normally unless that save raises.                      *)
except_exception(table, id, obj, st_save) ==
    /\ records' = save(table, id, [obj EXCEPT !.status = "failed"], st_save)
    /\ pc' = IF st_save = "ok" THEN "files" ELSE "raised"
    /\ cur' = NoFrame

\* From the call to the start of the row loop.
OpenFile(Store) ==
    /\ pc = "files"
    /\ csv_files # <<>>
    /\ LET csv_file_path == Head(csv_files)
           obj == CSVProcessingRecord(csv_file_path, "processing")
           id == Len(records) + 1
       IN  /\ csv_files' = Tail(csv_files)
           /\ invoked' = invoked \cup {csv_file_path}
           /\ \E st_create \in Store, st_save \in Store :
                IF st_create # "ok"
                THEN \* objects.create raises, outside the try
                     /\ pc' = "raised"
                     /\ UNCHANGED <<records, cur>>
                ELSE IF \/ csv_file_path \notin DOMAIN incoming
                        \/ incoming[csv_file_path] = Undecodable
                THEN \* open() or the first read raises
                     except_exception(Append(records, obj), id, obj, st_save)
                ELSE /\ records' = Append(records, obj)
                     /\ pc' = "rows"
                     /\ cur' = [NoFrame EXCEPT
                                   !.path = csv_file_path,
                                   !.record = id, !.obj = obj,
                                   !.csvfile = incoming[csv_file_path]]
    /\ UNCHANGED <<other, switches, run_once, incoming, processed, clock, emails, outbox,
                   api_calls, row_calls, given, matched, passes>>

\* One iteration of "for row in reader".
ProcessRow(Store) ==
    /\ pc = "rows"
    /\ cur.reader < Len(cur.csvfile.rows)
    /\ LET row == cur.csvfile.rows[cur.reader + 1]
           zip_raw == get(row, "zip", <<>>)
           email_raw == get(row, "email", <<>>)
           zip_code == strip(zip_raw)
           email == strip(email_raw)
           rownum == cur.total_rows + 1
       IN  \E resp \in Responses, smtp \in SmtpOutcomes,
              st_ok \in Store, st_err \in Store, st_save \in Store :
             IF zip_raw = None \/ email_raw = None
             THEN \* None.strip() raises AttributeError
                  /\ except_exception(records, cur.record, cur.obj, st_save)
                  /\ UNCHANGED <<emails, outbox, api_calls, row_calls>>
             ELSE IF missing_data(zip_code, email)
             THEN /\ UNCHANGED <<outbox, api_calls, row_calls>>
                  /\ IF st_err = "ok"
                     THEN /\ emails' = emails \o
                               tag(<<missing_record(cur.record, zip_code,
                                                    email)>>,
                                   cur.record, rownum)
                          /\ cur' = count_missing(cur)
                          /\ UNCHANGED <<records, pc>>
                     ELSE /\ UNCHANGED emails
                          /\ except_exception(records, cur.record, cur.obj,
                                              st_save)
             ELSE LET r == process_row(cur.record, zip_code, email, resp,
                                       smtp, st_ok, st_err)
                  IN  /\ emails' = emails \o tag(r.created, cur.record, rownum)
                      /\ outbox' = outbox \o tag(r.sent, cur.record, rownum)
                      /\ api_calls' = api_calls \o
                                        tag(r.api, cur.record, rownum)
                      /\ row_calls' = row_calls \o
                            tag(<<[zip_code |-> zip_code, email |-> email,
                                   resp |-> resp, smtp |-> smtp,
                                   raised |-> r.raised, ret |-> r.ret]>>,
                                cur.record, rownum)
                      /\ IF r.raised
                         THEN except_exception(records, cur.record, cur.obj,
                                               st_save)
                         ELSE /\ cur' = count_row(cur, r.ret)
                              /\ UNCHANGED <<records, pc>>
    /\ UNCHANGED <<other, switches, run_once, incoming, processed, clock, given, csv_files,
                   matched, invoked, passes>>

\* After the loop: update the record and save it as completed.
CompleteFile(Store) ==
    /\ pc = "rows"
    /\ cur.reader = Len(cur.csvfile.rows)
    /\ LET done == completed_record(cur)
       IN  \E st_done \in Store, st_save \in Store :
             IF st_done # "ok"
             THEN except_exception(records, cur.record, done, st_save)
             ELSE /\ records' = save(records, cur.record, done, "ok")
                  /\ pc' = "move"
                  /\ cur' = [cur EXCEPT !.obj = done]
    /\ UNCHANGED <<other, switches, run_once, incoming, processed, clock, emails, outbox,
                   api_calls, row_calls, given, csv_files, matched, invoked,
                   passes>>

\* move_to_processed, and the except block when shutil.move raises.
MoveFile(Store, Env) ==
    /\ pc = "move"
    /\ \E env_ok \in Env, st_save \in Store :
          IF move_succeeds(incoming, cur.path, env_ok)
          THEN /\ incoming' = move_source(incoming, cur.path)
               /\ processed' = move_destination(processed, cur.path, clock)
               /\ pc' = "files"
               /\ cur' = NoFrame
               /\ UNCHANGED records
          ELSE /\ except_exception(records, cur.record, cur.obj, st_save)
               /\ UNCHANGED <<incoming, processed>>
    /\ UNCHANGED <<other, switches, run_once, clock, emails, outbox, api_calls, row_calls,
                   given, csv_files, matched, invoked, passes>>

----------------------------------------------------------------------------
(* Specifications *)

\* process_csv --once; the database accepts every write.
Next ==
    \/ Handle
    \/ HandleReturn
    \/ process_csv_files
    \/ OpenFile(StoreUp)
    \/ ProcessRow(StoreUp)
    \/ CompleteFile(StoreUp)
    \/ MoveFile(StoreUp, FileSystemAny)

Spec == Init /\ [][Next]_vars

\* process_csv without --once; the database accepts every write.
NextLoop ==
    \/ Handle
    \/ HandleSleep
    \/ process_csv_files
    \/ OpenFile(StoreUp)
    \/ ProcessRow(StoreUp)
    \/ CompleteFile(StoreUp)
    \/ MoveFile(StoreUp, FileSystemAny)

SpecLoop == InitLoop /\ [][NextLoop]_vars

\* process_csv --once; a write to the database may raise.
NextStore ==
    \/ Handle
    \/ HandleReturn
    \/ process_csv_files
    \/ OpenFile(StoreAny)
    \/ ProcessRow(StoreAny)
    \/ CompleteFile(StoreAny)
    \/ MoveFile(StoreAny, FileSystemAny)

SpecStore == Init /\ [][NextStore]_vars

(* Two processes of process_csv --once on the same directories and the    *)
(* same database, run in any interleaving of their steps.  The file       *)
(* system lets every move through, so that a move fails only when the     *)
(* source is gone.                                                         *)

\* The operating system takes the running process off and puts the
\* other one on.
Switch ==
    /\ switches < MaxSwitches
    /\ other.pc \notin {"none", "done", "raised"}
    /\ other' = [pc |-> pc, csv_files |-> csv_files, matched |-> matched,
                 invoked |-> invoked, passes |-> passes, cur |-> cur]
    /\ pc' = other.pc
    /\ csv_files' = other.csv_files
    /\ matched' = other.matched
    /\ invoked' = other.invoked
    /\ passes' = other.passes
    /\ cur' = other.cur
    /\ switches' = switches + 1
    /\ UNCHANGED <<run_once, incoming, processed, clock, records, emails,
                   outbox, api_calls, row_calls, given>>

NextTwo ==
    \/ Handle
    \/ HandleReturn
    \/ process_csv_files
    \/ OpenFile(StoreUp)
    \/ ProcessRow(StoreUp)
    \/ CompleteFile(StoreUp)
    \/ MoveFile(StoreUp, FileSystemUp)
    \/ Switch

SpecTwo == InitTwo /\ [][NextTwo]_vars

----------------------------------------------------------------------------
(* Vocabulary of the properties *)

Ids == DOMAIN records

\* The rows of the file a processing record is about.
rows_of(id) == given[records[id].filename].rows

\* A row whose zip and email are both present after trimming.
present(row) ==
    /\ row.zip # None /\ row.email # None
    /\ strip(row.zip) # <<>> /\ strip(row.email) # <<>>

\* A row whose zip, email or both are empty after trimming.
absent(row) ==
    /\ row.zip # None /\ row.email # None
    /\ (strip(row.zip) = <<>> \/ strip(row.email) = <<>>)

\* The entries of a log or table that belong to row `row` of record `id`.
at(log, id, row) == { i \in DOMAIN log : log[i].rec = id /\ log[i].row = row }

\* The EmailRecords owned by a processing record.
owned(id) == { i \in DOMAIN emails : emails[i].processing_record = id }

\* process_single_csv has returned for this record.
returned(id) == id \in Ids /\ cur.record # id /\ pc # "raised"

\* The rows of record id the loop has gone past.
passed(id) ==
    IF cur.record = id THEN 1..cur.reader
    ELSE { i \in DOMAIN rows_of(id) :
             \A j \in 1..i : rows_of(id)[j].zip # None
                             /\ rows_of(id)[j].email # None }

Terminal(id) == records[id].status \in {"completed", "failed"}

----------------------------------------------------------------------------
(* C1: when a file ends completed, with N data rows of which M have a     *)
(* present zip and email, its record has total_rows = N,                  *)
(* successful_rows + failed_rows = N and failed_rows >= N - M, whatever   *)
(* the lookup and send calls did.                                          *)

C1_CompletedCounts ==
    \A id \in Ids :
        records[id].status = "completed" =>
            LET N == Len(rows_of(id))
                M == Cardinality({ i \in 1..N : present(rows_of(id)[i]) })
                r == records[id]
            IN  /\ r.total_rows = N
                /\ r.successful_rows + r.failed_rows = N
                /\ r.failed_rows >= N - M

\* A completed file with a valid row that failed beside a row with
\* missing data: failed_rows exceeds N - M.
C1_Witness ==
    \E id \in Ids :
        /\ records[id].status = "completed"
        /\ records[id].total_rows = 2
        /\ records[id].failed_rows = 2
        /\ \E i, j \in 1..2 : /\ present(rows_of(id)[i])
                              /\ absent(rows_of(id)[j])

----------------------------------------------------------------------------
(* C2: a row whose zip, email or both are empty after trimming gets        *)
(* exactly one EmailRecord, with success = FALSE and "N/A" in place of     *)
(* each empty field; it is counted as failed; no lookup and no send is     *)
(* made for it; and the loop goes on to the next row.                      *)

na(text) == IF text = <<>> THEN <<"N/A">> ELSE text

failures(id) == { k \in owned(id) : ~emails[k].success }

C2_MissingRow ==
    \A id \in Ids :
        /\ \A i \in passed(id) :
             absent(rows_of(id)[i]) =>
                /\ Cardinality(at(emails, id, i)) = 1
                /\ \A k \in at(emails, id, i) :
                      /\ emails[k].processing_record = id
                      /\ ~emails[k].success
                      /\ emails[k].zip_code = na(strip(rows_of(id)[i].zip))
                      /\ emails[k].email_address =
                            na(strip(rows_of(id)[i].email))
                /\ at(api_calls, id, i) = {}
                /\ at(outbox, id, i) = {}
                /\ at(row_calls, id, i) = {}
                /\ (i + 1) \in passed(id) => at(emails, id, i + 1) # {}
        /\ cur.record = id => cur.failed_rows = Cardinality(failures(id))
        /\ records[id].status = "completed" =>
              records[id].failed_rows = Cardinality(failures(id))

\* A row with both fields empty has its record and the row after it was
\* processed and notified.
C2_Witness ==
    \E id \in Ids :
        /\ returned(id)
        /\ Len(rows_of(id)) = 2
        /\ strip(rows_of(id)[1].zip) = <<>>
        /\ strip(rows_of(id)[1].email) = <<>>
        /\ at(emails, id, 1) # {}
        /\ at(outbox, id, 2) # {}

----------------------------------------------------------------------------
(* C3: when the lookup fails for a row with present zip and email, the     *)
(* row gets an EmailRecord with success = FALSE whose error message        *)
(* contains the text of the cause, and no message is sent for the row.     *)

C3_LookupFailure ==
    \A a \in DOMAIN api_calls :
        api_calls[a].resp.kind = "error" =>
            LET id == api_calls[a].rec
                i == api_calls[a].row
            IN  /\ present(rows_of(id)[i])
                /\ Cardinality(at(emails, id, i)) = 1
                /\ \A k \in at(emails, id, i) :
                      /\ ~emails[k].success
                      /\ contains(emails[k].error_message,
                                  api_calls[a].resp.cause)
                /\ at(outbox, id, i) = {}

C3_Witness ==
    \E a \in DOMAIN api_calls :
        /\ api_calls[a].resp.kind = "error"
        /\ at(emails, api_calls[a].rec, api_calls[a].row) # {}
        /\ returned(api_calls[a].rec)

----------------------------------------------------------------------------
(* C4: a row counted as successful has exactly one sent message and        *)
(* exactly one EmailRecord, with success = TRUE and state and city not     *)
(* None; the message follows a lookup that succeeded for the row; and      *)
(* every sent message belongs to a row whose EmailRecord has               *)
(* success = TRUE.                                                         *)

successes(id) == { k \in owned(id) : emails[k].success }

----------------------------------------------------------------------------
(* C5: in the step in which process_single_csv returns, the stored status  *)
(* of its record is completed or failed; it is completed exactly when      *)
(* the file left the incoming directory for the processed directory       *)
(* under the name stem, timestamp, suffix; when it is failed the file is   *)
(* where it was and no exception went to the caller.                       *)

returns_in_step(id) ==
    /\ id \in DOMAIN records'
    /\ cur'.record # id
    /\ id \notin DOMAIN records \/ cur.record = id

C5_Return ==
    [][ \A id \in DOMAIN records' :
          returns_in_step(id) =>
             LET f == records'[id].filename
             IN  /\ pc' # "raised"
                 /\ records'[id].status \in {"completed", "failed"}
                 /\ records'[id].status = "completed" =>
                       /\ f \in DOMAIN incoming
                       /\ f \notin DOMAIN incoming'
                       /\ processed' =
                             processed \cup {<<f[1], clock, f[2]>>}
                 /\ records'[id].status = "failed" =>
                       /\ f \in DOMAIN incoming'
                       /\ incoming' = incoming
                       /\ processed' = processed ]_vars

\* One file completed and moved, another failed and left in place.
C5_Witness ==
    \E id1, id2 \in Ids :
        /\ returned(id1) /\ returned(id2)
        /\ records[id1].status = "completed"
        /\ records[id1].filename \notin DOMAIN incoming
        /\ processed # {}
        /\ records[id2].status = "failed"
        /\ records[id2].filename \in DOMAIN incoming

----------------------------------------------------------------------------
(* C6: a failure while one file is processed (creating its record,         *)
(* reading, the row loop, a database write, the move) never ends the       *)
(* pass: every file the glob matched is handed to process_single_csv.      *)
(* Stated for a run in which database writes may raise (SpecStore).        *)

C6_PassVisitsEveryFile ==
    pc = "raised" => \A i \in DOMAIN matched : matched[i] \in invoked

----------------------------------------------------------------------------
(* C7: once a processing record is completed or failed, the number of      *)
(* EmailRecords it owns equals its total_rows.                             *)

C7_RowRecordCount ==
    \A id \in Ids :
        Terminal(id) => Cardinality(owned(id)) = records[id].total_rows

----------------------------------------------------------------------------
(* C8: process_row does not raise: when the lookup or the send fails it    *)
(* writes exactly one EmailRecord with success = FALSE and returns False;  *)
(* every call writes exactly one EmailRecord for its row, and makes one    *)
(* lookup and at most one send.                                            *)

C8_ProcessRow ==
    \A c \in DOMAIN row_calls :
        LET id == row_calls[c].rec
            i == row_calls[c].row
        IN  /\ ~row_calls[c].raised
            /\ Cardinality(at(row_calls, id, i)) = 1
            /\ Cardinality(at(emails, id, i)) = 1
            /\ Cardinality(at(api_calls, id, i)) = 1
            /\ Cardinality(at(outbox, id, i)) <= 1
            /\ \A k \in at(emails, id, i) :
                  /\ emails[k].success = row_calls[c].ret
                  /\ emails[k].email_address = row_calls[c].email
                  /\ emails[k].zip_code = row_calls[c].zip_code
            /\ (row_calls[c].resp.kind = "error" \/ row_calls[c].smtp # <<>>)
                  => /\ ~row_calls[c].ret
                     /\ at(outbox, id, i) = {}
                     /\ id = cur.record \/ returned(id)
            /\ (row_calls[c].resp.kind = "json" /\ row_calls[c].smtp = <<>>)
                  => row_calls[c].ret

\* A send that failed after a lookup that succeeded, in a file whose
\* loop went on to completion.
C8_Witness ==
    \E c \in DOMAIN row_calls :
        /\ row_calls[c].resp.kind = "json"
        /\ row_calls[c].smtp # <<>>
        /\ records[row_calls[c].rec].status = "completed"
        /\ at(emails, row_calls[c].rec, row_calls[c].row) # {}

----------------------------------------------------------------------------
(* C9: in a continuous run nobody touches the incoming directory; a file   *)
(* whose processing failed is not processed again on a later pass: each    *)
(* file has at most one processing record and each of its rows at most     *)
(* one message.  Stated for SpecLoop.                                      *)

C9_NoRetry ==
    /\ \A id1, id2 \in Ids :
          records[id1].filename = records[id2].filename => id1 = id2
    /\ \A m1, m2 \in DOMAIN outbox :
          (/\ records[outbox[m1].rec].filename =
                 records[outbox[m2].rec].filename
           /\ outbox[m1].row = outbox[m2].row) => m1 = m2

----------------------------------------------------------------------------
(* C10: with --once there is one pass and then the command returns; the    *)
(* pass creates exactly one processing record for each file of the         *)
(* incoming directory that matches *.csv; with nothing to match it         *)
(* creates no record, sends nothing, moves nothing and raises nothing.     *)

csv_given == { f \in DOMAIN given : f[2] = ".csv" }

C10_Once ==
    /\ passes <= 1
    /\ passes = 1 <=> pc = "done"
    /\ pc # "raised"
    /\ \A id1, id2 \in Ids :
          records[id1].filename = records[id2].filename => id1 = id2
    /\ \A id \in Ids : records[id].filename \in csv_given
    /\ pc = "done" =>
          \A f \in csv_given : \E id \in Ids : records[id].filename = f
    /\ csv_given = {} =>
          /\ records = <<>> /\ emails = <<>> /\ outbox = <<>>
          /\ api_calls = <<>> /\ processed = {} /\ incoming = given

\* The command has returned after a pass over two files.
C10_Witness ==
    /\ pc = "done"
    /\ Len(records) = 2
    /\ Cardinality(csv_given) = 2

\* The command has returned from a directory without CSV files.
C10_WitnessEmpty ==
    /\ pc = "done"
    /\ csv_given = {}
    /\ given # <<>>

----------------------------------------------------------------------------
(* C11: a lookup that answers with a well-formed body holding no place is  *)
(* not a failure: get_location_from_zip returns ("Unknown", "Unknown"),    *)
(* the message is sent, and the row gets an EmailRecord with               *)
(* success = TRUE, state = city = "Unknown", and is counted as successful. *)
(* When the transport refuses the message the row fails with the           *)
(* transport's error, not with a lookup error.                             *)

no_places(resp) == resp.kind = "json" /\ Len(resp.places) = 0

C11_EmptyLookup ==
    /\ \A c \in DOMAIN row_calls :
          no_places(row_calls[c].resp) =>
             LET id == row_calls[c].rec
                 i == row_calls[c].row
             IN  /\ present(rows_of(id)[i])
                 /\ Cardinality(at(emails, id, i)) = 1
                 /\ row_calls[c].smtp = <<>> =>
                       /\ row_calls[c].ret
                       /\ \A k \in at(emails, id, i) :
                             /\ emails[k].success
                             /\ emails[k].state = <<"Unknown">>
                             /\ emails[k].city = <<"Unknown">>
                       /\ Cardinality(at(outbox, id, i)) = 1
                       /\ \A m \in at(outbox, id, i) :
                             /\ outbox[m].state = <<"Unknown">>
                             /\ outbox[m].city = <<"Unknown">>
                 /\ row_calls[c].smtp # <<>> =>
                       \A k \in at(emails, id, i) :
                          /\ ~emails[k].success
                          /\ emails[k].error_message = row_calls[c].smtp
    /\ \A id \in Ids :
          records[id].status = "completed" =>
             records[id].successful_rows >=
                Cardinality({ c \in DOMAIN row_calls :
                                /\ row_calls[c].rec = id
                                /\ no_places(row_calls[c].resp)
                                /\ row_calls[c].smtp = <<>> })

\* A completed file whose only successful row had an empty lookup result.
C11_Witness ==
    \E c \in DOMAIN row_calls :
        /\ no_places(row_calls[c].resp)
        /\ row_calls[c].smtp = <<>>
        /\ records[row_calls[c].rec].status = "completed"
        /\ records[row_calls[c].rec].successful_rows = 1
        /\ at(outbox, row_calls[c].rec, row_calls[c].row) # {}

----------------------------------------------------------------------------
(* C12: the stored status of a processing record changes once, from        *)
(* processing to completed or to failed; a record stored as completed or   *)
(* failed is not changed again; and the counts are written only in the     *)
(* step that stores the final status.                                      *)

counts(r) == <<r.total_rows, r.successful_rows, r.failed_rows>>

C12_SingleTransition ==
    [][ \A id \in Ids :
          /\ Terminal(id) => records'[id] = records[id]
          /\ records'[id].status # records[id].status =>
                /\ records[id].status = "processing"
                /\ Terminal(id)'
          /\ counts(records'[id]) # counts(records[id]) =>
                /\ records[id].status = "processing"
                /\ Terminal(id)' ]_vars

----------------------------------------------------------------------------
(* C13: two processes of the command on one incoming directory are not     *)
(* kept apart.  Each creates at most one processing record for a file,     *)
(* so a file has at most two, and a row at most one message for each;      *)
(* one move at most succeeds, so at most one of the records of a file is   *)
(* still completed when its process has done with the file, and the file   *)
(* is archived once; and a record of a readable file with well-formed      *)
(* rows ends failed only when another record of the same file is           *)
(* completed, which is the process that won the move.                      *)

\* The records of a file.
records_of(f) == { id \in Ids : records[id].filename = f }

\* No process is at work on this record.
settled(id) == cur.record # id /\ other.cur.record # id

\* A file that opens, decodes and has both fields in every row.
well_formed(f) ==
    /\ given[f].readable
    /\ \A i \in DOMAIN given[f].rows :
          given[f].rows[i].zip # None /\ given[f].rows[i].email # None

\* The archived copies of a file.
archived(f) == { g \in processed : g[1] = f[1] /\ g[3] = f[2] }

C13_MoveRace ==
    \A f \in DOMAIN given :
        /\ Cardinality(records_of(f)) <= 2
        /\ \A id \in records_of(f), i \in DOMAIN given[f].rows :
              Cardinality(at(outbox, id, i)) <= 1
        /\ Cardinality({ id \in records_of(f) :
                            records[id].status = "completed"
                            /\ settled(id) }) <= 1
        /\ Cardinality(archived(f)) <= 1
        /\ \A id \in records_of(f) :
              /\ (records[id].status = "completed" /\ settled(id)) =>
                    f \notin DOMAIN incoming /\ archived(f) # {}
              /\ (records[id].status = "failed" /\ well_formed(f)) =>
                    /\ f \notin DOMAIN incoming
                    /\ \E won \in records_of(f) :
                          won # id /\ records[won].status = "completed"

\* Both processes have returned; a.csv has two processing records; its
\* valid row has a message from each; the file is archived; one record
\* is completed and the other, with its row counted as successful, is
\* failed.
C13_Witness ==
    /\ pc = "done" /\ other.pc = "done"
    /\ A_CSV \in DOMAIN given
    /\ Len(given[A_CSV].rows) = 1
    /\ present(given[A_CSV].rows[1])
    /\ Cardinality(records_of(A_CSV)) = 2
    /\ \A id \in records_of(A_CSV) : Cardinality(at(outbox, id, 1)) = 1
    /\ Len(outbox) = 2
    /\ archived(A_CSV) # {} /\ A_CSV \notin DOMAIN incoming
    /\ \E won, lost \in records_of(A_CSV) :
          /\ records[won].status = "completed"
          /\ records[lost].status = "failed"
          /\ records[lost].total_rows = 1
          /\ records[lost].successful_rows = 1

=============================================================================
